---- MODULE Spec2Model ----
(***************************************************************************)
(* The SoulBot chat applications (nayana.py, advanced.py, final.py,        *)
(* soul.py): the conversation log kept in the Streamlit session state,     *)
(* the context window sent to the Ollama backend, the truncation           *)
(* heuristic and the continuation loop of generate_response.               *)
(*                                                                         *)
(* A text is a sequence of characters, each character a one-element        *)
(* string.  The two non-ASCII characters the source tests for are named    *)
(* ELLIPSIS (U+2026) and RIGHT_DOUBLE_QUOTE (U+201D).                      *)
(*                                                                         *)
(* generate_response runs in one thread and blocks on every backend        *)
(* request.  The model cuts it at those requests: one action runs the code *)
(* from the call to the primary request, and one action per backend        *)
(* outcome runs the code from that outcome to the next request or to the   *)
(* return.                                                                 *)
(*                                                                         *)
(* Spec runs generate_response of the four scripts from a new session,     *)
(* SpecFn applies the pure helpers to drawn arguments, SpecTools runs the  *)
(* tools beside the chat and the journal, and SpecChat runs the chat tab   *)
(* of soul.py, name check and emotion detection included.                  *)
(***************************************************************************)
EXTENDS Integers, Sequences, FiniteSets, TLC

VARIABLES
  app,                   \* which of the four scripts is running
  ollama_available,      \* st.session_state.ollama_available
  conversation_history,  \* st.session_state['conversation_history']
  pc,                    \* where the turn stands: "idle", "wait_emotion", "wait_primary", "wait_cont"
  user_input,            \* generate_response's argument
  recent_history,        \* local recent_history: the context window of this call
  ai_response,           \* local ai_response: the reply accumulated so far
  attempts,              \* local attempts: continuation requests issued in this call
  requests,              \* the backend requests this call has issued, in order
  backend_result,        \* what the backend did with the last request
  returned,              \* how the last call ended: a returned text or a raised exception
  history_at_call,       \* the log as it was when the last call started
  fn,                    \* function-level runs: the function under test
  fn_args,               \* its arguments
  fn_result,             \* its result, once applied
  journal_file,          \* JOURNAL_FILE: whether it exists, and the list stored in it
  journal_entries,       \* st.session_state['journal_entries']
  badge_progress,        \* st.session_state['badge_progress']
  clock,                 \* datetime.now(), in minutes
  operation,             \* the tool that ran last
  ollama_probed,         \* 'ollama_available' in st.session_state
  identity_added,        \* st.session_state["identity_added"]
  emotion_log            \* st.session_state["emotion_log"]: the labels logged, in order

vars ==
  << app, ollama_available, conversation_history, pc, user_input, recent_history,
     ai_response, attempts, requests, backend_result, returned, history_at_call,
     fn, fn_args, fn_result, journal_file, journal_entries, badge_progress, clock,
     operation, ollama_probed, identity_added, emotion_log >>

\* The session keys that only the script's top level and the chat tab write.
session_vars == << ollama_probed, identity_added, emotion_log >>

\* The journal, the badges and the clock, which the chat leaves alone.
tool_vars == << journal_file, journal_entries, badge_progress, clock, operation >>

\* --------------------------------------------------------------------------
\* Configuration (soul.py 16-32, final.py 13-29, advanced.py 13-17)
\* --------------------------------------------------------------------------

MAX_CHAT_CONTEXT_HISTORY == 6

FAST_CHAT_TOKENS == 120

MAX_MESSAGE_CHARS == 800

\* The other two character budgets the scripts pass to truncate_message:
\* 600 in detect_emotion and cbt_fix, 1000 when the chat history is displayed.
PROMPT_MESSAGE_CHARS == 600

DISPLAY_MESSAGE_CHARS == 1000

\* num_predict of the primary request: max(FAST_CHAT_TOKENS, 240)
PRIMARY_NUM_PREDICT == IF FAST_CHAT_TOKENS > 240 THEN FAST_CHAT_TOKENS ELSE 240

\* num_predict of a continuation request
CONTINUATION_NUM_PREDICT == 160

\* The loop bound off by one.
MAX_CONTINUATION_ATTEMPTS_plus_one == 2 + 1

\* "attempts < 2" in the continuation loop
MAX_CONTINUATION_ATTEMPTS == 2

\* The heuristic with "len(text) < 29".
MIN_TRUNCATION_CHECK_LEN_minus_one == 30 - 1

\* "len(text) < 30" in _is_likely_truncated
MIN_TRUNCATION_CHECK_LEN == 30

\* "max_chars // 2 - 10" in truncate_message
TRUNCATE_MARGIN == 10

Apps == {"nayana", "advanced", "final", "soul"}

\* The scripts whose generate_response has the continuation loop and builds
\* its context window with prepare_recent_history.
ContinuationApps == {"final", "soul"}

\* --------------------------------------------------------------------------
\* Bounds of the model
\* --------------------------------------------------------------------------

\* A call of generate_response starts only while the log is shorter than this.
MaxHistory == 7

\* The over-long user message is typed only while the log holds at most this
\* many messages.
MaxLongInputHistory == 1

\* Function-level runs: the longest log handed to prepare_recent_history.
MaxFnHistory == 7

\* Function-level runs: texts up to this many characters around each budget.
MaxFnSlack == 3

\* --------------------------------------------------------------------------
\* Characters and texts
\* --------------------------------------------------------------------------

ELLIPSIS == "U+2026"

RIGHT_DOUBLE_QUOTE == "U+201D"

\* str.strip, str.rstrip and str.lstrip remove these (of Python's whitespace,
\* the characters the texts of this model can hold).
Whitespace == {" ", "\t", "\n", "\r"}

\* The text of n characters that repeats the pattern pat.
Fill(n, pat) == [i \in 1..n |-> pat[((i - 1) % Len(pat)) + 1]]

\* "I feel anxious" (14 characters)
U_FEEL ==
  << "I"," ","f","e","e","l"," ","a","n","x","i","o","u","s" >>

\* "You are not alone, it is okay to feel anxious." (46 characters)
P_COMPLETE ==
  << "Y","o","u"," ","a","r","e"," ","n","o","t"," ","a","l","o","n","e",",",
     " ","i","t"," ","i","s"," ","o","k","a","y"," ","t","o"," ","f","e","e",
     "l"," ","a","n","x","i","o","u","s","." >>

\* "I hear you" (10 characters)
P_SHORT ==
  << "I"," ","h","e","a","r"," ","y","o","u" >>

\* "Take a deep breath, this feeling will give way to " (50 characters)
P_UNFINISHED ==
  << "T","a","k","e"," ","a"," ","d","e","e","p"," ","b","r","e","a","t","h",
     ","," ","t","h","i","s"," ","f","e","e","l","i","n","g"," ","w","i","l",
     "l"," ","g","i","v","e"," ","w","a","y"," ","t","o"," " >>

\* "clear skies again." (18 characters)
C_FINISH ==
  << "c","l","e","a","r"," ","s","k","i","e","s"," ","a","g","a","i","n","." >>

\* " calm and then" (14 characters)
C_MORE ==
  << " ","c","a","l","m"," ","a","n","d"," ","t","h","e","n" >>

\* " \n" (2 characters)
C_BLANK ==
  << " ","\n" >>

\* "connection refused" (18 characters)
E_REFUSED ==
  << "c","o","n","n","e","c","t","i","o","n"," ","r","e","f","u","s","e","d" >>

\* "model not found" (15 characters)
E_STATUS ==
  << "m","o","d","e","l"," ","n","o","t"," ","f","o","u","n","d" >>

\* "Error: " (7 characters)
ERROR_PREFIX ==
  << "E","r","r","o","r",":"," " >>

\* "An error occurred during response generation: " (46 characters)
NAYANA_ERROR_PREFIX ==
  << "A","n"," ","e","r","r","o","r"," ","o","c","c","u","r","r","e","d"," ",
     "d","u","r","i","n","g"," ","r","e","s","p","o","n","s","e"," ","g","e",
     "n","e","r","a","t","i","o","n",":"," " >>

\* "Ollama is offline. Please start the server." (43 characters)
OFFLINE_MESSAGE ==
  << "O","l","l","a","m","a"," ","i","s"," ","o","f","f","l","i","n","e",".",
     " ","P","l","e","a","s","e"," ","s","t","a","r","t"," ","t","h","e"," ",
     "s","e","r","v","e","r","." >>

\* "Sorry, I can't connect to my AI brain right now. Please ensure Ollama is running." (81 characters)
NAYANA_OFFLINE_MESSAGE ==
  << "S","o","r","r","y",","," ","I"," ","c","a","n","'","t"," ","c","o","n",
     "n","e","c","t"," ","t","o"," ","m","y"," ","A","I"," ","b","r","a","i",
     "n"," ","r","i","g","h","t"," ","n","o","w","."," ","P","l","e","a","s",
     "e"," ","e","n","s","u","r","e"," ","O","l","l","a","m","a"," ","i","s",
     " ","r","u","n","n","i","n","g","." >>

\* "Please continue the previous response only, and finish the remaining content.If the previous response was complete, respond with nothing." (137 characters)
CONT_PROMPT ==
  << "P","l","e","a","s","e"," ","c","o","n","t","i","n","u","e"," ","t","h",
     "e"," ","p","r","e","v","i","o","u","s"," ","r","e","s","p","o","n","s",
     "e"," ","o","n","l","y",","," ","a","n","d"," ","f","i","n","i","s","h",
     " ","t","h","e"," ","r","e","m","a","i","n","i","n","g"," ","c","o","n",
     "t","e","n","t",".","I","f"," ","t","h","e"," ","p","r","e","v","i","o",
     "u","s"," ","r","e","s","p","o","n","s","e"," ","w","a","s"," ","c","o",
     "m","p","l","e","t","e",","," ","r","e","s","p","o","n","d"," ","w","i",
     "t","h"," ","n","o","t","h","i","n","g","." >>

\* The marker truncate_message puts between head and tail: "\n...\n".
TRUNCATION_MARKER == << "\n", ".", ".", ".", "\n" >>

\* SOULBOT_SYSTEM_MESSAGE's content is a literal of 251 characters; the model
\* keeps its length and not its wording.
SOULBOT_SYSTEM_CONTENT == Fill(251, << "S", "o", "u", "l", "B", "o", "t", " " >>)

SOULBOT_SYSTEM_MESSAGE == [role |-> "system", content |-> SOULBOT_SYSTEM_CONTENT]

\* --------------------------------------------------------------------------
\* Python's slices and string methods
\* --------------------------------------------------------------------------

\* A slice bound k on a sequence of n elements: negative bounds count from
\* the end, and every bound is clamped to 0..n.
SliceBound(k, n) ==
  IF k < 0 THEN (IF k + n < 0 THEN 0 ELSE k + n)
  ELSE (IF k > n THEN n ELSE k)

\* s[:k]
SliceTo(s, k) == SubSeq(s, 1, SliceBound(k, Len(s)))

\* s[k:]
SliceFrom(s, k) == SubSeq(s, SliceBound(k, Len(s)) + 1, Len(s))

\* s.rstrip()
rstrip(s) ==
  LET keep == {i \in 1..Len(s) : s[i] \notin Whitespace}
  IN IF keep = {} THEN << >>
     ELSE SubSeq(s, 1, CHOOSE i \in keep : \A j \in keep : j <= i)

\* s.lstrip()
lstrip(s) ==
  LET keep == {i \in 1..Len(s) : s[i] \notin Whitespace}
  IN IF keep = {} THEN << >>
     ELSE SubSeq(s, CHOOSE i \in keep : \A j \in keep : i <= j, Len(s))

\* s.strip()
strip(s) == lstrip(rstrip(s))

\* s.endswith(suffix)
endswith(s, suffix) ==
  /\ Len(suffix) <= Len(s)
  /\ SubSeq(s, Len(s) - Len(suffix) + 1, Len(s)) = suffix

\* --------------------------------------------------------------------------
\* Helpers: truncate and prepare messages (soul.py 128-143, final.py 108-123)
\* --------------------------------------------------------------------------

\* truncate_message with "<" for "<=".
truncate_message_strict(msg, max_chars) ==
  IF Len(msg) < max_chars THEN msg
  ELSE SliceTo(msg, (max_chars \div 2) - TRUNCATE_MARGIN)
         \o TRUNCATION_MARKER
         \o SliceFrom(msg, -((max_chars \div 2) - TRUNCATE_MARGIN))

truncate_message(msg, max_chars) ==
  IF Len(msg) <= max_chars THEN msg
  ELSE LET head == SliceTo(msg, (max_chars \div 2) - TRUNCATE_MARGIN)
           tail == SliceFrom(msg, -((max_chars \div 2) - TRUNCATE_MARGIN))
       IN head \o TRUNCATION_MARKER \o tail

\* prepare_recent_history without the per-message truncation, as advanced.py
\* builds its window.
prepare_recent_history_untruncated(history, max_items) ==
  LET recent == SliceFrom(history, -max_items)
  IN [i \in 1..Len(recent) |-> [role |-> recent[i].role, content |-> recent[i].content]]

prepare_recent_history(history, max_items) ==
  LET recent == SliceFrom(history, -max_items)
  IN [i \in 1..Len(recent) |->
        [role    |-> recent[i].role,
         content |-> truncate_message(recent[i].content, MAX_MESSAGE_CHARS)]]

\* --------------------------------------------------------------------------
\* The truncation heuristic (soul.py 198-213, final.py 180-195)
\* --------------------------------------------------------------------------

\* The characters of the literal s[-1] is looked up in: . ! ? " ' and U+201D.
SENTENCE_FINAL == {".", "!", "?", "\"", "'", RIGHT_DOUBLE_QUOTE}

CLOSING_BRACKETS == {")", "]", "}"}

\* "True" or "False", or "IndexError" where s[-1] is evaluated on an empty s.
\* The heuristic without its test for a trailing ellipsis.
_is_likely_truncated_no_ellipsis(text) ==
  IF text = << >> \/ Len(text) < MIN_TRUNCATION_CHECK_LEN THEN "False"
  ELSE LET s == strip(text)
       IN IF s = << >> THEN "IndexError"
          ELSE IF s[Len(s)] \notin SENTENCE_FINAL
                 THEN (IF s[Len(s)] \in CLOSING_BRACKETS THEN "False" ELSE "True")
          ELSE "False"

_is_likely_truncated(text) ==
  IF text = << >> \/ Len(text) < MIN_TRUNCATION_CHECK_LEN THEN "False"
  ELSE LET s == strip(text)
       IN IF endswith(s, << ".", ".", "." >>) \/ endswith(s, << ELLIPSIS >>) THEN "True"
          ELSE IF s = << >> THEN "IndexError"
          ELSE IF s[Len(s)] \notin SENTENCE_FINAL
                 THEN (IF s[Len(s)] \in CLOSING_BRACKETS THEN "False" ELSE "True")
          ELSE "False"

\* --------------------------------------------------------------------------
\* The backend (ollama.chat) and its wrapper ollama_chat
\* --------------------------------------------------------------------------

\* A 30-character reply of spaces only.
P_BLANK == Fill(MIN_TRUNCATION_CHECK_LEN, << " " >>)

\* str(e) of the exceptions ollama.chat raises.  Every one carries a message:
\* ollama_chat's callers test resp.get("error") for truth, and the model draws
\* no exception whose message is empty.
ErrorTexts == {E_REFUSED, E_STATUS}

PrimaryReplies == {P_COMPLETE, P_SHORT, P_UNFINISHED, P_BLANK}

ContinuationReplies == {<< >>, C_BLANK, C_FINISH, C_MORE}

\* A user message one character over MAX_MESSAGE_CHARS.
U_LONG == Fill(MAX_MESSAGE_CHARS + 1, << "w", "o", "r", "r", "y", " " >>)

UserInputs == {U_FEEL, U_LONG}

Raises(e) == [kind |-> "raise", text |-> e]

Replies(t) == [kind |-> "reply", text |-> t]

NoBackendResult == [kind |-> "none", text |-> << >>]

PrimaryOutcomes == {Raises(e) : e \in ErrorTexts} \cup {Replies(t) : t \in PrimaryReplies}

ContinuationOutcomes ==
  {Raises(e) : e \in ErrorTexts} \cup {Replies(t) : t \in ContinuationReplies}

\* What ollama_chat hands back for a backend outcome: the response, or
\* {"error": str(e)} for an exception (soul.py 148-160, advanced.py 76-82).
ollama_chat(outcome) ==
  IF outcome.kind = "raise" THEN [error |-> outcome.text]
  ELSE [message |-> [content |-> outcome.text]]

\* isinstance(resp, dict) and resp.get("error")
IsErrorResponse(resp) == "error" \in DOMAIN resp /\ resp.error # << >>

\* The num_predict a request carries, << >> when the request carries none.
\* soul.py and final.py merge the caller's options into OLLAMA_BASE_OPTIONS and
\* default num_predict to FAST_CHAT_TOKENS; advanced.py passes the caller's
\* options on; nayana.py calls ollama.chat without options.
RequestNumPredict(a, num_predict) ==
  IF a \in ContinuationApps
    THEN (IF num_predict = << >> THEN << FAST_CHAT_TOKENS >> ELSE num_predict)
    ELSE num_predict

Request(a, messages, num_predict) ==
  [messages |-> messages, num_predict |-> RequestNumPredict(a, num_predict)]

\* --------------------------------------------------------------------------
\* generate_response (soul.py 216-256, final.py 198-238, advanced.py 122-133,
\* nayana.py 74-86)
\* --------------------------------------------------------------------------

Message(role, content) == [role |-> role, content |-> content]

Returns(text) == [kind |-> "return", value |-> text, exc |-> ""]

RaisesException(exc) == [kind |-> "raise", value |-> << >>, exc |-> exc]

NoReturn == [kind |-> "none", value |-> << >>, exc |-> ""]

\* The text returned while ollama_available is false.
OfflineMessage(a) == IF a = "nayana" THEN NAYANA_OFFLINE_MESSAGE ELSE OFFLINE_MESSAGE

\* The offline text returned for a failed primary request too.
PrimaryFailureText_offline(a, e) == OfflineMessage(a)

\* The text returned when the primary request fails with str(e) = e.
PrimaryFailureText(a, e) ==
  IF a = "nayana" THEN NAYANA_ERROR_PREFIX \o e ELSE ERROR_PREFIX \o e

\* The whole log sent as the window.
ContextWindow_whole_log(a, history) == history

\* The messages of the primary request, built from the log.
ContextWindow(a, history) ==
  CASE a \in ContinuationApps -> prepare_recent_history(history, MAX_CHAT_CONTEXT_HISTORY)
    [] a = "advanced"         -> SliceFrom(history, -MAX_CHAT_CONTEXT_HISTORY)
    [] OTHER                  -> history

\* options of the primary request
PrimaryNumPredict(a) == IF a \in ContinuationApps THEN << PRIMARY_NUM_PREDICT >> ELSE << >>

\* The log cut to the context window on every append.
AppendMessage_trimmed(history, role, content) ==
  SliceFrom(Append(history, Message(role, content)), -MAX_CHAT_CONTEXT_HISTORY)

\* The message shortened to the window's budget before it is stored.
AppendMessage_truncated(history, role, content) ==
  Append(history, Message(role, truncate_message(content, MAX_MESSAGE_CHARS)))

\* st.session_state['conversation_history'].append({...})
AppendMessage(history, role, content) == Append(history, Message(role, content))

\* The user message of the failed turn taken back.
HistoryAfterPrimaryFailure_rollback(history) == SubSeq(history, 1, Len(history) - 1)

\* The log when the primary request has failed: generate_response returns
\* without touching it.
HistoryAfterPrimaryFailure(history) == history

\* Only "cont_text", without "cont_text.strip()".
IsNonBlank_unstripped(cont_text) == cont_text # << >>

\* cont_text and cont_text.strip()
IsNonBlank(cont_text) == cont_text # << >> /\ strip(cont_text) # << >>

\* ai_response + cont_text
JoinContinuation_fused(reply, cont_text) == reply \o cont_text

\* ai_response.rstrip() + " " + cont_text.lstrip()
JoinContinuation(reply, cont_text) == rstrip(reply) \o << " " >> \o lstrip(cont_text)

\* The continuation prompt alone, without the window.
ContinuationMessages_prompt_only(window) == << Message("user", CONT_PROMPT) >>

\* The reply so far sent along, as an assistant message before the prompt.
ContinuationMessages_with_partial(window) ==
  Append(Append(window, Message("assistant", ai_response)), Message("user", CONT_PROMPT))

\* recent_history + [{"role": "user", "content": cont_prompt}]
ContinuationMessages(window) == Append(window, Message("user", CONT_PROMPT))

\* The last two statements: append the assistant message and return the reply.
Finish(reply) ==
  /\ conversation_history' = AppendMessage(conversation_history, "assistant", reply)
  /\ ai_response' = reply
  /\ returned' = Returns(reply)
  /\ pc' = "idle"
  /\ UNCHANGED << attempts, requests >>

\* A failed continuation handled as a failed primary request is: the error
\* text returned and no assistant message appended.
AfterContinuationFailure_as_primary(outcome) ==
  /\ returned' = Returns(PrimaryFailureText(app, outcome.text))
  /\ pc' = "idle"
  /\ UNCHANGED << conversation_history, ai_response, attempts, requests >>

\* A failed continuation request: "break" leaves the loop, and the call ends
\* with the reply accumulated so far.
AfterContinuationFailure(outcome) == Finish(ai_response)

\* The loop entered whatever the heuristic says of the reply.
LoopTest_unconditional(reply) ==
  IF attempts < MAX_CONTINUATION_ATTEMPTS
    THEN /\ ai_response' = reply
         /\ attempts' = attempts + 1
         /\ requests' = Append(requests,
              Request(app, ContinuationMessages(recent_history),
                      << CONTINUATION_NUM_PREDICT >>))
         /\ pc' = "wait_cont"
         /\ UNCHANGED << conversation_history, returned >>
    ELSE Finish(reply)

\* The test of the while loop with the reply so far, and what follows it: the
\* next continuation request, the end of the call, or the IndexError of
\* _is_likely_truncated.
LoopTest(reply) ==
  LET truncated == _is_likely_truncated(reply)
  IN IF truncated = "IndexError"
       THEN /\ ai_response' = reply
            /\ returned' = RaisesException("IndexError")
            /\ pc' = "idle"
            /\ UNCHANGED << conversation_history, attempts, requests >>
     ELSE IF truncated = "True" /\ attempts < MAX_CONTINUATION_ATTEMPTS
       THEN /\ ai_response' = reply
            /\ attempts' = attempts + 1
            /\ requests' = Append(requests,
                 Request(app, ContinuationMessages(recent_history),
                         << CONTINUATION_NUM_PREDICT >>))
            /\ pc' = "wait_cont"
            /\ UNCHANGED << conversation_history, returned >>
     ELSE Finish(reply)

\* The user message appended before the flag is looked at.
HistoryWhenOffline_appended(history, u) == AppendMessage(history, "user", u)

\* The log when ollama_available is false: generate_response returns before
\* its first append.
HistoryWhenOffline(history, u) == history

\* generate_response(u) from its first statement to the primary request, or
\* to the return of the offline sentence.
EnterGenerateResponse(u) ==
  /\ user_input' = u
  /\ history_at_call' = conversation_history
  /\ ai_response' = << >>
  /\ attempts' = 0
  /\ IF ~ollama_available
       THEN /\ returned' = Returns(OfflineMessage(app))
            /\ requests' = << >>
            /\ recent_history' = << >>
            /\ pc' = "idle"
            /\ conversation_history' = HistoryWhenOffline(conversation_history, u)
       ELSE /\ conversation_history' = AppendMessage(conversation_history, "user", u)
            /\ recent_history' = ContextWindow(app, conversation_history')
            /\ requests' = << Request(app, recent_history', PrimaryNumPredict(app)) >>
            /\ returned' = NoReturn
            /\ pc' = "wait_primary"

\* The call, up to the primary request.
GenerateResponse(u) ==
  /\ pc = "idle"
  /\ fn = "none"
  /\ ollama_probed
  /\ Len(conversation_history) < MaxHistory
  /\ u = U_LONG => Len(conversation_history) <= MaxLongInputHistory
  /\ backend_result' = NoBackendResult
  /\ EnterGenerateResponse(u)
  /\ UNCHANGED << app, ollama_available, fn, fn_args, fn_result >>
  /\ UNCHANGED tool_vars
  /\ UNCHANGED session_vars

\* The backend's outcome of the primary request, and the code that follows it.
PrimaryResponse(outcome) ==
  /\ pc = "wait_primary"
  /\ backend_result' = outcome
  /\ IF (IF app = "nayana" THEN outcome.kind = "raise"
                           ELSE IsErrorResponse(ollama_chat(outcome)))
       THEN /\ returned' = Returns(PrimaryFailureText(app, outcome.text))
            /\ conversation_history' = HistoryAfterPrimaryFailure(conversation_history)
            /\ pc' = "idle"
            /\ UNCHANGED << ai_response, attempts, requests >>
     ELSE IF app \in ContinuationApps
       THEN LoopTest(outcome.text)
     ELSE Finish(outcome.text)
  /\ UNCHANGED << app, ollama_available, user_input, recent_history, history_at_call,
                  fn, fn_args, fn_result >>
  /\ UNCHANGED tool_vars
  /\ UNCHANGED session_vars

\* The backend's outcome of a continuation request, and the code that follows it.
ContinuationResponse(outcome) ==
  /\ pc = "wait_cont"
  /\ backend_result' = outcome
  /\ IF IsErrorResponse(ollama_chat(outcome))
       THEN AfterContinuationFailure(outcome)
     ELSE IF IsNonBlank(outcome.text)
       THEN LoopTest(JoinContinuation(ai_response, outcome.text))
     ELSE Finish(ai_response)
  /\ UNCHANGED << app, ollama_available, user_input, recent_history, history_at_call,
                  fn, fn_args, fn_result >>
  /\ UNCHANGED tool_vars
  /\ UNCHANGED session_vars

\* The state after the script's first run: the availability probe has set
\* ollama_available, the log is empty, and soul.py has inserted its identity
\* message (soul.py 102-123).
InitialHistory(a) == IF a = "soul" THEN << SOULBOT_SYSTEM_MESSAGE >> ELSE << >>

\* 'ollama_available' not in st.session_state
NeedsProbe_always(probed) == TRUE

NeedsProbe(probed) == ~probed

\* initialize_ollama: True when ollama.list() answers, False when it raises.
initialize_ollama(probe) == probe

\* The identity message inserted on every run of the script.
InsertIdentity_every_run(a, added, history) ==
  IF a = "soul" THEN << SOULBOT_SYSTEM_MESSAGE >> \o history ELSE history

\* soul.py: conversation_history.insert(0, SOULBOT_SYSTEM_MESSAGE) unless
\* identity_added; the other scripts have no identity message.
InsertIdentity(a, added, history) ==
  IF a = "soul" /\ ~added THEN << SOULBOT_SYSTEM_MESSAGE >> \o history ELSE history

\* One run of the script's top level, the first of the session or a rerun:
\* the availability probe when the session has no flag yet, the setdefaults,
\* and the identity message of soul.py.  probe is what ollama.list() does now.
ScriptRun(probe) ==
  /\ pc = "idle"
  /\ fn \in {"none", "chat"}
  /\ ollama_available' = IF NeedsProbe(ollama_probed) THEN initialize_ollama(probe)
                         ELSE ollama_available
  /\ ollama_probed' = TRUE
  /\ conversation_history' = InsertIdentity(app, identity_added, conversation_history)
  /\ identity_added' = (identity_added \/ app = "soul")
  /\ UNCHANGED << app, pc, user_input, recent_history, ai_response, attempts, requests,
                  backend_result, returned, history_at_call, fn, fn_args, fn_result,
                  emotion_log >>
  /\ UNCHANGED tool_vars

\* A new session, before the first run of the script: the session state is
\* empty.
Init ==
  /\ app \in Apps
  /\ ollama_available = FALSE
  /\ ollama_probed = FALSE
  /\ identity_added = FALSE
  /\ emotion_log = << >>
  /\ conversation_history = << >>
  /\ pc = "idle"
  /\ user_input = << >>
  /\ recent_history = << >>
  /\ ai_response = << >>
  /\ attempts = 0
  /\ requests = << >>
  /\ backend_result = NoBackendResult
  /\ returned = NoReturn
  /\ history_at_call = conversation_history
  /\ fn = "none"
  /\ fn_args = << >>
  /\ fn_result = << >>
  /\ journal_file = [exists |-> FALSE, entries |-> << >>]
  /\ journal_entries = << >>
  /\ badge_progress = [sessions |-> 0, affirmations |-> 0, journals |-> 0]
  /\ clock = 0
  /\ operation = "none"

Next ==
  \/ \E probe \in BOOLEAN : ScriptRun(probe)
  \/ \E u \in UserInputs : GenerateResponse(u)
  \/ \E outcome \in PrimaryOutcomes : PrimaryResponse(outcome)
  \/ \E outcome \in ContinuationOutcomes : ContinuationResponse(outcome)

Spec == Init /\ [][Next]_vars

\* --------------------------------------------------------------------------
\* Function-level runs: truncate_message and prepare_recent_history applied
\* to drawn arguments
\* --------------------------------------------------------------------------

FnDigits == << "0", "1", "2", "3", "4", "5", "6", "7", "8", "9" >>

FnLetters == << "a", "b", "c", "d", "e", "f", "g" >>

\* The character budgets the scripts call truncate_message with.
FnBudgets == {PROMPT_MESSAGE_CHARS, MAX_MESSAGE_CHARS, DISPLAY_MESSAGE_CHARS}

\* Text lengths drawn for a budget: empty, one character, around the budget,
\* and twice the budget.
FnLengths(max_chars) ==
  {0, 1, 2 * max_chars} \cup ((max_chars - MaxFnSlack)..(max_chars + MaxFnSlack))

FnTruncateArgs ==
  {[msg |-> Fill(n, pat), max_chars |-> c] :
     <<c, n, pat>> \in {t \in FnBudgets \X (0..(2 * DISPLAY_MESSAGE_CHARS)) \X {FnDigits, FnLetters} :
                          t[2] \in FnLengths(t[1])}}

\* The messages a drawn log is made of: a short user message, a user message
\* one character over the budget, an assistant message of exactly the budget.
FnMessages ==
  { Message("user", U_FEEL),
    Message("user", Fill(MAX_MESSAGE_CHARS + 1, FnDigits)),
    Message("assistant", Fill(MAX_MESSAGE_CHARS, FnLetters)) }

\* The logs of script a of at most MaxFnHistory messages: its initial log
\* followed by user and assistant messages.
FnHistories(a) ==
  UNION { {InitialHistory(a) \o s : s \in [1..k -> FnMessages]} :
            k \in 0..(MaxFnHistory - Len(InitialHistory(a))) }

\* "Wait..." (7 characters)
WAIT ==
  << "W","a","i","t",".",".","." >>

\* The ways a text drawn for _is_likely_truncated ends: nothing, each character
\* the heuristic looks for, both ellipses, and characters it does not know.
FnEndings ==
  { << >>, << "." >>, << "!" >>, << "?" >>, << "\"" >>, << "'" >>,
    << RIGHT_DOUBLE_QUOTE >>, << ")" >>, << "]" >>, << "}" >>,
    << ".", ".", "." >>, << ELLIPSIS >>, << "," >>, << ":" >>, << "(" >> }

\* Whitespace before and after it.
FnMargins == { << >>, << " " >>, << "\n" >> }

\* The lengths of the letters before the ending: none, a few, and around the
\* 30 characters the heuristic asks for.
FnBodyLengths ==
  {0, 4} \cup ((MIN_TRUNCATION_CHECK_LEN - MaxFnSlack - 1)..(MIN_TRUNCATION_CHECK_LEN + 1))

\* Texts of whitespace only, around 30 characters.
FnBlankTexts ==
  { Fill(n, << " ", "\n" >>) :
      n \in (MIN_TRUNCATION_CHECK_LEN - 1)..(MIN_TRUNCATION_CHECK_LEN + MaxFnSlack) }

FnHeuristicTexts ==
  { lead \o Fill(t[1], FnLetters) \o t[2] \o t[3] :
      <<lead, t>> \in {<< >>, << " " >>} \X (FnBodyLengths \X FnEndings \X FnMargins) }
    \cup FnBlankTexts \cup {WAIT}

NotApplied == [applied |-> FALSE, value |-> << >>]

Applied(v) == [applied |-> TRUE, value |-> v]

InitFn ==
  /\ app \in ContinuationApps
  /\ ollama_available = TRUE
  /\ conversation_history = InitialHistory(app)
  /\ pc = "idle"
  /\ user_input = << >>
  /\ recent_history = << >>
  /\ ai_response = << >>
  /\ attempts = 0
  /\ requests = << >>
  /\ backend_result = NoBackendResult
  /\ returned = NoReturn
  /\ history_at_call = conversation_history
  /\ fn \in {"truncate_message", "prepare_recent_history", "_is_likely_truncated"}
  /\ CASE fn = "truncate_message" -> fn_args \in FnTruncateArgs
       [] fn = "prepare_recent_history" ->
            fn_args \in {[history |-> h, max_items |-> MAX_CHAT_CONTEXT_HISTORY] :
                           h \in FnHistories(app)}
       [] fn = "_is_likely_truncated" -> fn_args \in {[text |-> t] : t \in FnHeuristicTexts}
  /\ fn_result = NotApplied
  /\ journal_file = [exists |-> FALSE, entries |-> << >>]
  /\ journal_entries = << >>
  /\ badge_progress = [sessions |-> 0, affirmations |-> 0, journals |-> 0]
  /\ clock = 0
  /\ operation = "none"
  /\ ollama_probed = TRUE
  /\ identity_added = (app = "soul")
  /\ emotion_log = << >>

ApplyTruncateMessage ==
  /\ fn = "truncate_message"
  /\ ~fn_result.applied
  /\ fn_result' = Applied(truncate_message(fn_args.msg, fn_args.max_chars))
  /\ UNCHANGED << app, ollama_available, conversation_history, pc, user_input,
                  recent_history, ai_response, attempts, requests, backend_result,
                  returned, history_at_call, fn, fn_args >>
  /\ UNCHANGED tool_vars
  /\ UNCHANGED session_vars

ApplyPrepareRecentHistory ==
  /\ fn = "prepare_recent_history"
  /\ ~fn_result.applied
  /\ fn_result' = Applied(prepare_recent_history(fn_args.history, fn_args.max_items))
  /\ UNCHANGED << app, ollama_available, conversation_history, pc, user_input,
                  recent_history, ai_response, attempts, requests, backend_result,
                  returned, history_at_call, fn, fn_args >>
  /\ UNCHANGED tool_vars
  /\ UNCHANGED session_vars

ApplyIsLikelyTruncated ==
  /\ fn = "_is_likely_truncated"
  /\ ~fn_result.applied
  /\ fn_result' = Applied(_is_likely_truncated(fn_args.text))
  /\ UNCHANGED << app, ollama_available, conversation_history, pc, user_input,
                  recent_history, ai_response, attempts, requests, backend_result,
                  returned, history_at_call, fn, fn_args >>
  /\ UNCHANGED tool_vars
  /\ UNCHANGED session_vars

NextFn == ApplyTruncateMessage \/ ApplyPrepareRecentHistory \/ ApplyIsLikelyTruncated

SpecFn == InitFn /\ [][NextFn]_vars

\* --------------------------------------------------------------------------
\* The tools beside the chat: emotion detection, affirmation, meditation,
\* CBT reframing and the journal (soul.py 39-53 and 165-305, final.py,
\* advanced.py 87-182, nayana.py 88-100)
\* --------------------------------------------------------------------------

\* Journal entries kept in one session and in the file.
MaxJournal == 2

\* Minutes the clock of the journal's timestamps advances.
MaxClock == 2

\* Affirmations counted in one session.
MaxAffirmations == 1

\* "Could not generate affirmation right now." (41 characters)
AFFIRMATION_UNAVAILABLE ==
  << "C","o","u","l","d"," ","n","o","t"," ","g","e","n","e","r","a","t","e",
     " ","a","f","f","i","r","m","a","t","i","o","n"," ","r","i","g","h","t",
     " ","n","o","w","." >>

\* "Could not generate meditation right now." (40 characters)
MEDITATION_UNAVAILABLE ==
  << "C","o","u","l","d"," ","n","o","t"," ","g","e","n","e","r","a","t","e",
     " ","m","e","d","i","t","a","t","i","o","n"," ","r","i","g","h","t"," ",
     "n","o","w","." >>

\* "CBT tool unavailable." (21 characters)
CBT_UNAVAILABLE ==
  << "C","B","T"," ","t","o","o","l"," ","u","n","a","v","a","i","l","a","b",
     "l","e","." >>

\* "Breathe in, breathe out." (24 characters)
T_REPLY ==
  << "B","r","e","a","t","h","e"," ","i","n",","," ","b","r","e","a","t","h",
     "e"," ","o","u","t","." >>

\* "Today was hard." (15 characters)
J_TEXT ==
  << "T","o","d","a","y"," ","w","a","s"," ","h","a","r","d","." >>

\* "happy" (5 characters)
HAPPY ==
  << "h","a","p","p","y" >>

\* "sad" (3 characters)
SAD ==
  << "s","a","d" >>

\* "angry" (5 characters)
ANGRY ==
  << "a","n","g","r","y" >>

\* "anxious" (7 characters)
ANXIOUS ==
  << "a","n","x","i","o","u","s" >>

\* "neutral" (7 characters)
NEUTRAL ==
  << "n","e","u","t","r","a","l" >>

\* "stressed" (8 characters)
STRESSED ==
  << "s","t","r","e","s","s","e","d" >>

\* "excited" (7 characters)
EXCITED ==
  << "e","x","c","i","t","e","d" >>

\* "tired" (5 characters)
TIRED ==
  << "t","i","r","e","d" >>

\* "emotion" (7 characters)
EMOTION_KEY ==
  << "e","m","o","t","i","o","n" >>

\* "{"emotion": "sad"}" (18 characters)
K_JSON ==
  << "{","\"","e","m","o","t","i","o","n","\"",":"," ","\"","s","a","d","\"",
     "}" >>

\* "Sure: {"emotion": "happy"} :)" (29 characters)
K_WRAPPED ==
  << "S","u","r","e",":"," ","{","\"","e","m","o","t","i","o","n","\"",":"," ",
     "\"","h","a","p","p","y","\"","}"," ",":",")" >>

\* "{"emotion": "furious"}" (22 characters)
K_OTHER_LABEL ==
  << "{","\"","e","m","o","t","i","o","n","\"",":"," ","\"","f","u","r","i",
     "o","u","s","\"","}" >>

\* "{"mood": "sad"}" (15 characters)
K_NO_KEY ==
  << "{","\"","m","o","o","d","\"",":"," ","\"","s","a","d","\"","}" >>

\* "{}" (2 characters)
K_EMPTY_OBJECT ==
  << "{","}" >>

\* "{"emotion": "Stressed"" (22 characters)
K_UNCLOSED ==
  << "{","\"","e","m","o","t","i","o","n","\"",":"," ","\"","S","t","r","e",
     "s","s","e","d","\"" >>

\* "{emotion: tired}" (16 characters)
K_UNQUOTED ==
  << "{","e","m","o","t","i","o","n",":"," ","t","i","r","e","d","}" >>

\* "The user sounds Anxious." (24 characters)
K_WORDS ==
  << "T","h","e"," ","u","s","e","r"," ","s","o","u","n","d","s"," ","A","n",
     "x","i","o","u","s","." >>

\* "I cannot tell" (13 characters)
K_NO_LABEL ==
  << "I"," ","c","a","n","n","o","t"," ","t","e","l","l" >>

\* "Label:\nsad" (10 characters)
K_TWO_LINES ==
  << "L","a","b","e","l",":","\n","s","a","d" >>

\* " \n " (3 characters)
K_SPACES ==
  << " ","\n"," " >>

\* The labels detect_emotion scans for, in the order of the scan.
EMOTION_LABELS == << HAPPY, SAD, ANGRY, ANXIOUS, NEUTRAL, STRESSED, EXCITED, TIRED >>

UPPERCASE ==
  << "A","B","C","D","E","F","G","H","I","J","K","L","M","N","O","P","Q","R",
     "S","T","U","V","W","X","Y","Z" >>

LOWERCASE ==
  << "a","b","c","d","e","f","g","h","i","j","k","l","m","n","o","p","q","r",
     "s","t","u","v","w","x","y","z" >>

\* str.lower()
lower(s) ==
  [i \in 1..Len(s) |->
     IF \E k \in 1..Len(UPPERCASE) : UPPERCASE[k] = s[i]
       THEN LOWERCASE[CHOOSE k \in 1..Len(UPPERCASE) : UPPERCASE[k] = s[i]]
       ELSE s[i]]

\* e in token
Contains(token, e) ==
  \E i \in 0..(Len(token) - Len(e)) : SubSeq(token, i + 1, i + Len(e)) = e

\* str.splitlines(): the lines of s, cut at "\n", "\r" and "\r\n"; no line for
\* the empty text.
RECURSIVE splitlines(_)
splitlines(s) ==
  IF s = << >> THEN << >>
  ELSE LET breaks == {i \in 1..Len(s) : s[i] \in {"\n", "\r"}}
       IN IF breaks = {} THEN << s >>
          ELSE LET i == CHOOSE b \in breaks : \A c \in breaks : b <= c
                   j == IF s[i] = "\r" /\ i < Len(s) /\ s[i + 1] = "\n" THEN i + 1 ELSE i
               IN << SubSeq(s, 1, i - 1) >> \o splitlines(SubSeq(s, j + 1, Len(s)))

NoMatch == [matched |-> FALSE, group |-> << >>]

\* re.search(r"\{.*\}", raw, re.DOTALL): from the first "{" to the last "}"
\* after it.
re_search_object(raw) ==
  LET opens == {i \in 1..Len(raw) : raw[i] = "{"}
      closes == {i \in 1..Len(raw) : raw[i] = "}"}
  IN IF opens = {} \/ closes = {} THEN NoMatch
     ELSE LET i == CHOOSE o \in opens : \A p \in opens : o <= p
              j == CHOOSE c \in closes : \A d \in closes : d <= c
          IN IF i < j THEN [matched |-> TRUE, group |-> SubSeq(raw, i, j)] ELSE NoMatch

JSONDecodeError == [ok |-> FALSE, members |-> << >>]

Parsed(members) == [ok |-> TRUE, members |-> members]

\* json.loads of a text that starts with "{" and ends with "}", for the texts
\* drawn here: the empty object, an object of one member whose name and value
\* are strings without escapes, and texts that are no JSON at all.
json_loads(s) ==
  LET n == Len(s)
      quotes == {i \in 1..n : s[i] = "\""}
      Quote(k) == CHOOSE i \in quotes : Cardinality({j \in quotes : j < i}) = k - 1
      Blank(a, b) == \A i \in a..b : s[i] \in Whitespace
      Plain(a, b) == \A i \in a..b : s[i] \notin {"\\", "\n", "\r", "\t"}
  IN IF n < 2 \/ s[1] # "{" \/ s[n] # "}" THEN JSONDecodeError
     ELSE IF quotes = {} THEN (IF Blank(2, n - 1) THEN Parsed(<< >>) ELSE JSONDecodeError)
     ELSE IF Cardinality(quotes) # 4 THEN JSONDecodeError
     ELSE LET q1 == Quote(1)
              q2 == Quote(2)
              q3 == Quote(3)
              q4 == Quote(4)
              colons == {i \in (q2 + 1)..(q3 - 1) : s[i] = ":"}
          IN IF /\ Blank(2, q1 - 1)
                /\ Plain(q1 + 1, q2 - 1)
                /\ Cardinality(colons) = 1
                /\ \A i \in (q2 + 1)..(q3 - 1) : s[i] \in Whitespace \cup {":"}
                /\ Plain(q3 + 1, q4 - 1)
                /\ Blank(q4 + 1, n - 1)
               THEN Parsed(<< [name |-> SubSeq(s, q1 + 1, q2 - 1),
                               value |-> SubSeq(s, q3 + 1, q4 - 1)] >>)
               ELSE JSONDecodeError

\* data.get(name, default)
dict_get(members, name, default) ==
  IF \E i \in 1..Len(members) : members[i].name = name
    THEN members[CHOOSE i \in 1..Len(members) : members[i].name = name].value
    ELSE default

\* detect_emotion for the backend's outcome of the classifier request.
detect_emotion(outcome) ==
  LET resp == ollama_chat(outcome)
  IN IF IsErrorResponse(resp) THEN Returns(NEUTRAL)
     ELSE LET raw == strip(resp.message.content)
              found == re_search_object(raw)
              data == IF found.matched THEN json_loads(found.group) ELSE JSONDecodeError
          IN IF data.ok THEN Returns(dict_get(data.members, EMOTION_KEY, NEUTRAL))
             ELSE LET lines == splitlines(raw)
                  IN IF lines = << >> THEN RaisesException("IndexError")
                     ELSE LET token == lower(strip(lines[1]))
                              hits == {k \in 1..Len(EMOTION_LABELS) :
                                         Contains(token, EMOTION_LABELS[k])}
                          IN IF hits = {} THEN Returns(NEUTRAL)
                             ELSE Returns(EMOTION_LABELS[
                                    CHOOSE k \in hits : \A h \in hits : k <= h])

\* The classifier's replies: JSON alone and wrapped in words, a label outside
\* the eight, an object without "emotion", the empty object, broken JSON, plain
\* words with and without a label, a label on the second line only, and
\* nothing but whitespace or nothing at all.
ClassifierReplies ==
  { K_JSON, K_WRAPPED, K_OTHER_LABEL, K_NO_KEY, K_EMPTY_OBJECT, K_UNCLOSED,
    K_UNQUOTED, K_WORDS, K_NO_LABEL, K_TWO_LINES, K_SPACES, << >> }

ClassifierOutcomes ==
  {Raises(e) : e \in ErrorTexts} \cup {Replies(t) : t \in ClassifierReplies}

ToolOutcomes == {Raises(e) : e \in ErrorTexts} \cup {Replies(T_REPLY)}

\* The scripts with detect_emotion, cbt_fix and a journal.
ToolApps == {"advanced", "final", "soul"}

\* The scripts that keep the journal in JOURNAL_FILE.
JournalFileApps == {"final", "soul"}

\* return None
ReturnsNone == [kind |-> "return_none", value |-> << >>, exc |-> ""]

\* The exception of ollama.chat, where nothing catches it.
BackendException == RaisesException("Exception")

\* st.session_state.setdefault('badge_progress', {...})
NoBadges == [sessions |-> 0, affirmations |-> 0, journals |-> 0]

\* generate_affirmation: what it returns and the badge counters it leaves.
generate_affirmation(a, available, outcome, badges) ==
  IF a = "nayana"
    THEN [returned |-> IF ~available THEN ReturnsNone
                       ELSE IF outcome.kind = "raise" THEN BackendException
                       ELSE Returns(outcome.text),
          badge_progress |-> badges]
  ELSE IF IsErrorResponse(ollama_chat(outcome))
    THEN [returned |-> Returns(AFFIRMATION_UNAVAILABLE), badge_progress |-> badges]
  ELSE [returned |-> Returns(ollama_chat(outcome).message.content),
        badge_progress |-> [badges EXCEPT !.affirmations = @ + 1]]

\* generate_meditation, and generate_meditation_guide of nayana.py
generate_meditation(a, available, outcome) ==
  IF a = "nayana"
    THEN (IF ~available THEN ReturnsNone
          ELSE IF outcome.kind = "raise" THEN BackendException
          ELSE Returns(outcome.text))
  ELSE IF IsErrorResponse(ollama_chat(outcome)) THEN Returns(MEDITATION_UNAVAILABLE)
  ELSE Returns(ollama_chat(outcome).message.content)

cbt_fix(outcome) ==
  IF IsErrorResponse(ollama_chat(outcome)) THEN Returns(CBT_UNAVAILABLE)
  ELSE Returns(ollama_chat(outcome).message.content)

\* JOURNAL_FILE before the first save.
NoJournalFile == [exists |-> FALSE, entries |-> << >>]

\* load_journals: the stored list, or [] when there is no file or reading it
\* raises.
load_journals(file, readable) ==
  IF file.exists /\ readable THEN file.entries ELSE << >>

\* save_journals: the file rewritten with the list it is handed.
save_journals(journals) == [exists |-> TRUE, entries |-> journals]

JournalEntry(now, text) == [timestamp |-> now, text |-> text]

JournalTexts == {J_TEXT}

\* What the tools leave alone.
chat_vars ==
  << conversation_history, pc, user_input, recent_history, ai_response, attempts,
     requests, history_at_call, fn, fn_args, fn_result >>

\* The backend is asked unless nayana.py finds ollama_available false.
ToolBackendResult(outcome) ==
  IF app = "nayana" /\ ~ollama_available THEN NoBackendResult ELSE outcome

GenerateAffirmation(outcome) ==
  /\ fn = "tools"
  /\ badge_progress.affirmations < MaxAffirmations
  /\ LET done == generate_affirmation(app, ollama_available, outcome, badge_progress)
     IN /\ returned' = done.returned
        /\ badge_progress' = done.badge_progress
  /\ backend_result' = ToolBackendResult(outcome)
  /\ operation' = "generate_affirmation"
  /\ UNCHANGED << app, ollama_available, chat_vars, journal_file, journal_entries, clock >>
  /\ UNCHANGED session_vars

GenerateMeditation(outcome) ==
  /\ fn = "tools"
  /\ returned' = generate_meditation(app, ollama_available, outcome)
  /\ backend_result' = ToolBackendResult(outcome)
  /\ operation' = "generate_meditation"
  /\ UNCHANGED << app, ollama_available, chat_vars, journal_file, journal_entries,
                  badge_progress, clock >>
  /\ UNCHANGED session_vars

CbtFix(outcome) ==
  /\ fn = "tools"
  /\ app \in ToolApps
  /\ returned' = cbt_fix(outcome)
  /\ backend_result' = outcome
  /\ operation' = "cbt_fix"
  /\ UNCHANGED << app, ollama_available, chat_vars, journal_file, journal_entries,
                  badge_progress, clock >>
  /\ UNCHANGED session_vars

DetectEmotion(outcome) ==
  /\ fn = "tools"
  /\ app \in ToolApps
  /\ returned' = detect_emotion(outcome)
  /\ backend_result' = outcome
  /\ operation' = "detect_emotion"
  /\ UNCHANGED << app, ollama_available, chat_vars, journal_file, journal_entries,
                  badge_progress, clock >>
  /\ UNCHANGED session_vars

\* save_journal(text) at minute now.
SaveJournal(text, now) ==
  /\ fn = "tools"
  /\ app \in ToolApps
  /\ Len(journal_entries) < MaxJournal
  /\ now \in {clock, clock + 1}
  /\ now <= MaxClock
  /\ clock' = now
  /\ journal_entries' = Append(journal_entries, JournalEntry(now, text))
  /\ badge_progress' = [badge_progress EXCEPT !.journals = @ + 1]
  /\ journal_file' = IF app \in JournalFileApps THEN save_journals(journal_entries')
                     ELSE journal_file
  /\ returned' = ReturnsNone
  /\ backend_result' = NoBackendResult
  /\ operation' = "save_journal"
  /\ UNCHANGED << app, ollama_available, chat_vars >>
  /\ UNCHANGED session_vars

\* A new session of the script: the session state starts over, the journal is
\* loaded from the file and the backend is probed again.
StartSession(readable, available) ==
  /\ fn = "tools"
  /\ journal_entries' = IF app \in JournalFileApps THEN load_journals(journal_file, readable)
                        ELSE << >>
  /\ badge_progress' = NoBadges
  /\ ollama_available' = available
  /\ returned' = NoReturn
  /\ backend_result' = NoBackendResult
  /\ operation' = "load_journals"
  /\ UNCHANGED << app, chat_vars, journal_file, clock >>
  /\ UNCHANGED session_vars

InitTools ==
  /\ app \in Apps
  /\ ollama_available \in BOOLEAN
  /\ conversation_history = InitialHistory(app)
  /\ pc = "idle"
  /\ user_input = << >>
  /\ recent_history = << >>
  /\ ai_response = << >>
  /\ attempts = 0
  /\ requests = << >>
  /\ backend_result = NoBackendResult
  /\ returned = NoReturn
  /\ history_at_call = conversation_history
  /\ fn = "tools"
  /\ fn_args = << >>
  /\ fn_result = << >>
  /\ journal_file = NoJournalFile
  /\ journal_entries = << >>
  /\ badge_progress = NoBadges
  /\ clock = 0
  /\ operation = "none"
  /\ ollama_probed = TRUE
  /\ identity_added = (app = "soul")
  /\ emotion_log = << >>

NextTools ==
  \/ \E outcome \in ToolOutcomes : GenerateAffirmation(outcome)
  \/ \E outcome \in ToolOutcomes : GenerateMeditation(outcome)
  \/ \E outcome \in ToolOutcomes : CbtFix(outcome)
  \/ \E outcome \in ClassifierOutcomes : DetectEmotion(outcome)
  \/ \E text \in JournalTexts, now \in 0..MaxClock : SaveJournal(text, now)
  \/ \E readable \in BOOLEAN, available \in BOOLEAN : StartSession(readable, available)

SpecTools == InitTools /\ [][NextTools]_vars

\* --------------------------------------------------------------------------
\* The chat tab of soul.py (soul.py 381-406): the name check, then
\* detect_emotion, log_emotion and generate_response
\* --------------------------------------------------------------------------

\* Chat inputs handled in one session.
MaxChatTurns == 3

EM_DASH == "U+2014"

\* "Hi! Who are you?" (16 characters)
U_NAME ==
  << "H","i","!"," ","W","h","o"," ","a","r","e"," ","y","o","u","?" >>

\* "I'm SoulBot U+2014 your AI emotional wellness companion." (51 characters)
NAME_ANSWER ==
  << "I","'","m"," ","S","o","u","l","B","o","t"," ",EM_DASH," ","y","o","u","r",
     " ","A","I"," ","e","m","o","t","i","o","n","a","l"," ","w","e","l","l",
     "n","e","s","s"," ","c","o","m","p","a","n","i","o","n","." >>

\* "what is your name" (17 characters)
Q_WHAT_IS ==
  << "w","h","a","t"," ","i","s"," ","y","o","u","r"," ","n","a","m","e" >>

\* "who are you" (11 characters)
Q_WHO ==
  << "w","h","o"," ","a","r","e"," ","y","o","u" >>

\* "your name" (9 characters)
Q_YOUR_NAME ==
  << "y","o","u","r"," ","n","a","m","e" >>

\* "who are you?" (12 characters)
Q_WHO_MARK ==
  << "w","h","o"," ","a","r","e"," ","y","o","u","?" >>

\* "what's your name" (16 characters)
Q_WHATS_APOSTROPHE ==
  << "w","h","a","t","'","s"," ","y","o","u","r"," ","n","a","m","e" >>

\* "whats your name" (15 characters)
Q_WHATS ==
  << "w","h","a","t","s"," ","y","o","u","r"," ","n","a","m","e" >>

\* name_queries
NAME_QUERIES == {Q_WHAT_IS, Q_WHO, Q_YOUR_NAME, Q_WHO_MARK, Q_WHATS_APOSTROPHE, Q_WHATS}

\* The check without .lower().
IsNameQuery_case_sensitive(u) == \E q \in NAME_QUERIES : Contains(strip(u), q)

\* any(q in user_message.strip().lower() for q in name_queries)
IsNameQuery(u) == \E q \in NAME_QUERIES : Contains(lower(strip(u)), q)

ChatInputs == {U_FEEL, U_NAME}

\* The classifier's outcomes drawn in the chat: a failure, a JSON label, and
\* the empty reply on which detect_emotion raises.
ChatClassifierOutcomes == {Raises(E_REFUSED), Replies(K_JSON), Replies(<< >>)}

\* The chat tab with a non-empty chat input, up to the first backend request
\* of the turn.
ChatInput(u) ==
  /\ pc = "idle"
  /\ fn = "chat"
  /\ ollama_probed
  /\ Len(conversation_history) < MaxHistory
  /\ badge_progress.sessions < MaxChatTurns
  /\ badge_progress' = [badge_progress EXCEPT !.sessions = @ + 1]
  /\ user_input' = u
  /\ history_at_call' = conversation_history
  /\ backend_result' = NoBackendResult
  /\ requests' = << >>
  /\ recent_history' = << >>
  /\ ai_response' = << >>
  /\ attempts' = 0
  /\ IF IsNameQuery(u)
       THEN /\ conversation_history' =
                 AppendMessage(conversation_history, "assistant", NAME_ANSWER)
            /\ returned' = Returns(NAME_ANSWER)
            /\ pc' = "idle"
       ELSE /\ returned' = NoReturn
            /\ pc' = "wait_emotion"
            /\ UNCHANGED conversation_history
  /\ UNCHANGED << app, ollama_available, fn, fn_args, fn_result, journal_file,
                  journal_entries, clock, operation, session_vars >>

\* The backend's outcome of the classifier request: detect_emotion returns or
\* raises, log_emotion appends the label, and generate_response runs up to its
\* primary request.
EmotionResponse(outcome) ==
  /\ pc = "wait_emotion"
  /\ backend_result' = outcome
  /\ LET emotion == detect_emotion(outcome)
     IN IF emotion.kind = "raise"
          THEN /\ returned' = emotion
               /\ pc' = "idle"
               /\ UNCHANGED << conversation_history, user_input, history_at_call,
                               recent_history, ai_response, attempts, requests,
                               emotion_log >>
          ELSE /\ emotion_log' = Append(emotion_log, emotion.value)
               /\ EnterGenerateResponse(user_input)
  /\ UNCHANGED << app, ollama_available, fn, fn_args, fn_result, ollama_probed,
                  identity_added >>
  /\ UNCHANGED tool_vars

InitChat ==
  /\ app = "soul"
  /\ ollama_available = FALSE
  /\ ollama_probed = FALSE
  /\ identity_added = FALSE
  /\ emotion_log = << >>
  /\ conversation_history = << >>
  /\ pc = "idle"
  /\ user_input = << >>
  /\ recent_history = << >>
  /\ ai_response = << >>
  /\ attempts = 0
  /\ requests = << >>
  /\ backend_result = NoBackendResult
  /\ returned = NoReturn
  /\ history_at_call = conversation_history
  /\ fn = "chat"
  /\ fn_args = << >>
  /\ fn_result = << >>
  /\ journal_file = NoJournalFile
  /\ journal_entries = << >>
  /\ badge_progress = NoBadges
  /\ clock = 0
  /\ operation = "none"

NextChat ==
  \/ \E probe \in BOOLEAN : ScriptRun(probe)
  \/ \E u \in ChatInputs : ChatInput(u)
  \/ \E outcome \in ChatClassifierOutcomes : EmotionResponse(outcome)
  \/ \E outcome \in PrimaryOutcomes : PrimaryResponse(outcome)
  \/ \E outcome \in ContinuationOutcomes : ContinuationResponse(outcome)

SpecChat == InitChat /\ [][NextChat]_vars

\* --------------------------------------------------------------------------
\* Properties
\* --------------------------------------------------------------------------

IsPrefix(s, t) == Len(s) <= Len(t) /\ SubSeq(t, 1, Len(s)) = s

HasSystemMessage(messages) == \E i \in 1..Len(messages) : messages[i].role = "system"

\* The last call ended with its primary request failed.
PrimaryFailedCall ==
  pc = "idle" /\ Len(requests) = 1 /\ backend_result.kind = "raise"

\* This step is the code's answer to a failed continuation request.
ContinuationFails == pc = "wait_cont" /\ backend_result'.kind = "raise"

\* This step is the code's answer to a continuation of no text or of
\* whitespace only.
ContinuationIsBlank ==
  /\ pc = "wait_cont"
  /\ backend_result'.kind = "reply"
  /\ strip(backend_result'.text) = << >>

\* This step is the code's answer to a continuation that holds text.
ContinuationHasText ==
  /\ pc = "wait_cont"
  /\ backend_result'.kind = "reply"
  /\ strip(backend_result'.text) # << >>

\* C1: the conversation log is append-only: every step of generate_response
\* leaves the log it found as a prefix of the log it leaves, so no message
\* changes its position, role or content.
C1_AppendOnlyLog == [][IsPrefix(conversation_history, conversation_history')]_vars

\* Two calls have appended to the log, the second with a reply assembled
\* from a continuation.
C1_Witness ==
  /\ pc = "idle"
  /\ returned.kind = "return"
  /\ Len(requests) >= 2
  /\ Len(conversation_history) >= Len(InitialHistory(app)) + 4

\* C2: whenever the log holds a system-role identity message, the messages of
\* the primary request hold that identity message too, however long the log.
C2_IdentityAlwaysInWindow ==
  (pc = "wait_primary" /\ HasSystemMessage(conversation_history))
    => \E i \in 1..Len(conversation_history) :
         /\ conversation_history[i].role = "system"
         /\ \E j \in 1..Len(requests[1].messages) :
              /\ requests[1].messages[j].role = "system"
              /\ requests[1].messages[j].content = conversation_history[i].content

\* C3: for a log of at least MAX_CHAT_CONTEXT_HISTORY messages,
\* prepare_recent_history returns exactly that many messages, or one more
\* when its first is an identity message that is not among the last
\* MAX_CHAT_CONTEXT_HISTORY of the log, and the content of every returned
\* message has at most MAX_MESSAGE_CHARS characters.
C3_WindowBound ==
  (/\ fn = "prepare_recent_history"
   /\ fn_result.applied
   /\ Len(fn_args.history) >= MAX_CHAT_CONTEXT_HISTORY)
    => LET window == fn_result.value
           n == MAX_CHAT_CONTEXT_HISTORY
           last_n == SubSeq(fn_args.history, Len(fn_args.history) - n + 1,
                            Len(fn_args.history))
       IN /\ \/ Len(window) = n
             \/ /\ Len(window) = n + 1
                /\ window[1].role = "system"
                /\ ~HasSystemMessage(last_n)
          /\ \A i \in 1..Len(window) : Len(window[i].content) <= MAX_MESSAGE_CHARS

\* A log of more than MAX_CHAT_CONTEXT_HISTORY messages whose last message is
\* over the budget, and the window built from it with that message shortened.
C3_Witness ==
  /\ fn = "prepare_recent_history"
  /\ fn_result.applied
  /\ Len(fn_args.history) > MAX_CHAT_CONTEXT_HISTORY
  /\ Len(fn_args.history[Len(fn_args.history)].content) > MAX_MESSAGE_CHARS
  /\ Len(fn_result.value) = MAX_CHAT_CONTEXT_HISTORY
  /\ Len(fn_result.value[MAX_CHAT_CONTEXT_HISTORY].content) < MAX_MESSAGE_CHARS

\* C4: truncate_message(msg, C) is msg when msg has at most C characters;
\* a longer msg becomes its first C/2 - 10 characters, the marker "\n...\n",
\* and its last C/2 - 10 characters, so the marker shows in every shortened
\* message.
C4_TruncateMessage ==
  (fn = "truncate_message" /\ fn_result.applied)
    => LET msg == fn_args.msg
           c == fn_args.max_chars
           k == (c \div 2) - 10
           out == fn_result.value
       IN /\ Len(msg) <= c => out = msg
          /\ Len(msg) > c =>
               /\ Len(out) = 2 * k + 5
               /\ \A i \in 1..k : out[i] = msg[i]
               /\ SubSeq(out, k + 1, k + 5) = << "\n", ".", ".", ".", "\n" >>
               /\ \A i \in 1..k : out[k + 5 + i] = msg[Len(msg) - k + i]

\* A message one character over the budget of 800, shortened around the marker.
C4_Witness ==
  /\ fn = "truncate_message"
  /\ fn_result.applied
  /\ fn_args.max_chars = MAX_MESSAGE_CHARS
  /\ Len(fn_args.msg) = MAX_MESSAGE_CHARS + 1
  /\ Len(fn_result.value) < Len(fn_args.msg)
  /\ fn_result.value[(MAX_MESSAGE_CHARS \div 2) - 10 + 2] = "."

\* C5: one call issues at most two continuation requests, whatever the
\* heuristic says of the reply, so at most three backend requests: the
\* primary request and then one continuation request per attempt.
C5_ContinuationBound ==
  /\ attempts <= 2
  /\ Len(requests) <= 3
  /\ requests # << >> => Len(requests) = attempts + 1
  /\ \A i \in 2..Len(requests) : requests[i].messages # requests[1].messages

\* A call that ended after two continuations with a reply the heuristic still
\* takes for truncated.
C5_Witness ==
  /\ pc = "idle"
  /\ returned.kind = "return"
  /\ Len(requests) = 3
  /\ backend_result.kind = "reply"
  /\ _is_likely_truncated(ai_response) = "True"

C7_NoAssistantAfterPrimaryFailure ==
  PrimaryFailedCall
    => conversation_history = Append(history_at_call, Message("user", user_input))

\* The primary request has failed in a call that found earlier turns in the log.
C7_Witness ==
  /\ PrimaryFailedCall
  /\ Len(history_at_call) >= Len(InitialHistory(app)) + 2
  /\ conversation_history[Len(conversation_history)].role = "user"

C9_BlankContinuationStops ==
  [][ContinuationIsBlank
       => /\ requests' = requests
          /\ attempts' = attempts
          /\ ai_response' = ai_response
          /\ pc' = "idle"]_vars

\* The first continuation of a call came back as whitespace only and the
\* call has ended with the primary reply.
C9_Witness ==
  /\ pc = "idle"
  /\ Len(requests) = 2
  /\ backend_result = Replies(C_BLANK)
  /\ ai_response = P_UNFINISHED

\* C10: when a continuation returns text, the new reply is the old reply up
\* to its last non-whitespace character, one space, and the continuation from
\* its first non-whitespace character on: the letters on both sides of the
\* join are never fused into one word.
C10_JoinWithSingleSpace ==
  [][ContinuationHasText
       => LET old == ai_response
              cont == backend_result'.text
              new == ai_response'
              p == CHOOSE i \in 0..Len(old) :
                     /\ i > 0 => old[i] \notin Whitespace
                     /\ \A j \in (i + 1)..Len(old) : old[j] \in Whitespace
              q == CHOOSE i \in 1..Len(cont) :
                     /\ cont[i] \notin Whitespace
                     /\ \A j \in 1..(i - 1) : cont[j] \in Whitespace
          IN /\ Len(new) = p + 1 + (Len(cont) - q + 1)
             /\ \A i \in 1..p : new[i] = old[i]
             /\ new[p + 1] = " "
             /\ \A i \in q..Len(cont) : new[p + 1 + (i - q + 1)] = cont[i]
             /\ p > 0 => new[p] \notin Whitespace
             /\ new[p + 2] \notin Whitespace]_vars

\* The unfinished primary reply, which ends in a letter and a space, joined
\* to a continuation that starts with a letter.
C10_Witness ==
  /\ pc = "idle"
  /\ Len(requests) = 2
  /\ backend_result = Replies(C_FINISH)
  /\ ai_response = rstrip(P_UNFINISHED) \o << " " >> \o C_FINISH
  /\ returned = Returns(ai_response)

\* The heuristic has been applied to a drawn text.
HeuristicApplied == fn = "_is_likely_truncated" /\ fn_result.applied

\* The index of the last character of text that is not whitespace, 0 when
\* there is none.
LastVisible(text) ==
  LET visible == {i \in 1..Len(text) : text[i] \notin {" ", "\t", "\n", "\r"}}
  IN IF visible = {} THEN 0 ELSE CHOOSE i \in visible : \A j \in visible : j <= i

\* The text, trimmed of whitespace, ends with "..." or with the glyph U+2026.
EndsWithEllipsis(text) ==
  LET p == LastVisible(text)
  IN \/ p >= 1 /\ text[p] = ELLIPSIS
     \/ p >= 3 /\ \A i \in (p - 2)..p : text[i] = "."

\* C11: _is_likely_truncated is false for every text of fewer than 30
\* characters, whatever it ends with.
C11_ShortTextNeverTruncated ==
  (HeuristicApplied /\ Len(fn_args.text) < 30) => fn_result.value = "False"

\* A text of 29 characters that ends in a letter, and the heuristic's answer.
C11_Witness ==
  /\ HeuristicApplied
  /\ Len(fn_args.text) = 29
  /\ fn_args.text[29] = "a"
  /\ fn_result.value = "False"

\* C12 as stated: _is_likely_truncated is true for every text whose trimmed
\* form ends with an ellipsis, "Wait..." among them.
C12_EllipsisAlwaysTruncated ==
  (HeuristicApplied /\ EndsWithEllipsis(fn_args.text)) => fn_result.value = "True"

\* C12 as amended: for a text whose trimmed form ends with an ellipsis,
\* _is_likely_truncated is true when the text has at least 30 characters and
\* false when it has fewer, as "Wait..." has.
C12_EllipsisTruncatedFromThirty ==
  (HeuristicApplied /\ EndsWithEllipsis(fn_args.text))
    => fn_result.value = (IF Len(fn_args.text) >= 30 THEN "True" ELSE "False")

\* A text of 30 and more characters that ends with "..." and a space, taken
\* for truncated.
C12_Witness ==
  /\ HeuristicApplied
  /\ Len(fn_args.text) >= 30
  /\ LastVisible(fn_args.text) = Len(fn_args.text) - 1
  /\ fn_args.text[Len(fn_args.text) - 1] = "."
  /\ EndsWithEllipsis(fn_args.text)
  /\ fn_result.value = "True"

\* C13: for every text of at least 30 characters whose trimmed form does not
\* end with an ellipsis, _is_likely_truncated is false when the last character
\* of the trimmed text is . ! ? a closing quotation mark ) ] or }, and true
\* otherwise.
C13_DecidedByLastCharacter ==
  (HeuristicApplied /\ Len(fn_args.text) >= 30 /\ ~EndsWithEllipsis(fn_args.text))
    => LET p == LastVisible(fn_args.text)
           complete == /\ p >= 1
                       /\ fn_args.text[p] \in {".", "!", "?", "\"", "'", RIGHT_DOUBLE_QUOTE,
                                               ")", "]", "}"}
       IN fn_result.value = (IF complete THEN "False" ELSE "True")

\* This step is the code's answer to a primary reply that the heuristic takes
\* for complete.
PrimaryReplyComplete ==
  /\ pc = "wait_primary"
  /\ backend_result'.kind = "reply"
  /\ _is_likely_truncated(backend_result'.text) = "False"

\* C14: when the primary request succeeds with a reply that is not taken for
\* truncated, the call issues no continuation request, returns the backend's
\* text as it came and appends it as the assistant message; a log that was
\* empty before the call then holds exactly two messages.
C14_CompleteReplyReturnedVerbatim ==
  [][PrimaryReplyComplete =>
       /\ pc' = "idle"
       /\ requests' = requests
       /\ Len(requests') = 1
       /\ returned' = [kind |-> "return", value |-> backend_result'.text, exc |-> ""]
       /\ conversation_history' =
            Append(conversation_history,
                   [role |-> "assistant", content |-> backend_result'.text])
       /\ history_at_call = << >> =>
            conversation_history' =
              << [role |-> "user", content |-> user_input],
                 [role |-> "assistant", content |-> backend_result'.text] >>]_vars

\* final.py, first call on an empty log: the complete reply came back as the
\* answer to the only request.
C14_Witness ==
  /\ app = "final"
  /\ pc = "idle"
  /\ history_at_call = << >>
  /\ Len(requests) = 1
  /\ backend_result = [kind |-> "reply", text |-> P_COMPLETE]
  /\ returned.value = P_COMPLETE
  /\ Len(conversation_history) = 2

\* A call has ended whose primary request had succeeded.
PrimarySucceededCall ==
  /\ pc = "idle"
  /\ \/ Len(requests) >= 2
     \/ Len(requests) = 1 /\ backend_result.kind = "reply"

\* C15: every call whose primary request succeeds leaves the log it found
\* followed by exactly two messages, the user's input and then the assistant's
\* reply, and that reply is the value the call returns.
C15_TwoMessagesPerCall ==
  PrimarySucceededCall =>
    /\ returned.kind = "return"
    /\ conversation_history =
         history_at_call \o << [role |-> "user", content |-> user_input],
                               [role |-> "assistant", content |-> returned.value] >>

\* A call is past its primary request, or has ended after one.
CallReachedBackend == requests # << >>

\* C16: the log stores the user's message whole, whatever its length, after the
\* log the call found; only the copy in the context window of final.py and
\* soul.py is shortened to MAX_MESSAGE_CHARS.
C16_LogKeepsFullMessage ==
  CallReachedBackend =>
    LET n == Len(history_at_call)
        window == requests[1].messages
    IN /\ Len(conversation_history) > n
       /\ SubSeq(conversation_history, 1, n) = history_at_call
       /\ conversation_history[n + 1] = [role |-> "user", content |-> user_input]
       /\ window # << >>
       /\ window[Len(window)].role = "user"
       /\ IF app \in {"final", "soul"} /\ Len(user_input) > MAX_MESSAGE_CHARS
            THEN /\ Len(window[Len(window)].content) < Len(user_input)
                 /\ window[Len(window)].content # user_input
            ELSE window[Len(window)].content = user_input

\* soul.py: the message of 801 characters is in the log whole while the
\* request carries a shorter copy, and the call has gone on to a continuation.
C16_Witness ==
  /\ app = "soul"
  /\ Len(user_input) = MAX_MESSAGE_CHARS + 1
  /\ Len(requests) >= 2
  /\ conversation_history[Len(history_at_call) + 1].content = user_input
  /\ Len(requests[1].messages[Len(requests[1].messages)].content) < MAX_MESSAGE_CHARS

\* C17: every continuation request carries the messages of the primary
\* request followed by exactly one more message, of role user, and asks for 160
\* tokens where the primary request asked for 240.
C17_ContinuationCarriesWindow ==
  \A i \in 2..Len(requests) :
    /\ Len(requests[i].messages) = Len(requests[1].messages) + 1
    /\ SubSeq(requests[i].messages, 1, Len(requests[1].messages)) = requests[1].messages
    /\ requests[i].messages[Len(requests[i].messages)].role = "user"
    /\ requests[i].num_predict = << 160 >>
    /\ requests[1].num_predict = << 240 >>

\* A call with a primary request and two continuation requests.
C17_Witness ==
  /\ Len(requests) = 3
  /\ requests[3].num_predict = << CONTINUATION_NUM_PREDICT >>
  /\ requests[3].messages[Len(requests[3].messages)].content = CONT_PROMPT

\* The text names none of the eight labels, in either case of letters.
NamesNoLabel(text) ==
  \A k \in 1..8 :
    ~\E i \in 0..(Len(text) - Len(EMOTION_LABELS[k])) :
       \A j \in 1..Len(EMOTION_LABELS[k]) :
         \/ text[i + j] = EMOTION_LABELS[k][j]
         \/ \E u \in 1..26 : UPPERCASE[u] = text[i + j] /\ LOWERCASE[u] = EMOTION_LABELS[k][j]

\* C18: whatever text the classifier returns, detect_emotion returns a label
\* and raises nothing, and the label is "neutral" when the backend failed or
\* its text is no JSON object and names no label.
C18_DetectEmotionNeverRaises ==
  operation = "detect_emotion" =>
    /\ returned.kind = "return"
    /\ backend_result.kind = "raise" => returned.value = NEUTRAL
    /\ (/\ NamesNoLabel(backend_result.text)
        /\ \A i \in 1..Len(backend_result.text) : backend_result.text[i] # "{")
         => returned.value = NEUTRAL

\* C19: a backend failure during an affirmation, a meditation, a CBT reframing
\* or an emotion detection comes back as a returned text in every script, never
\* as an exception.
C19_BackendFailureNeverRaises ==
  (/\ operation \in {"generate_affirmation", "generate_meditation", "cbt_fix",
                     "detect_emotion"}
   /\ backend_result.kind = "raise")
    => returned.kind = "return" /\ returned.value # << >>

\* C20: the list in the journal file only grows: a step leaves it as it was, or
\* save_journal leaves the list that was stored followed by the new entry;
\* starting a session changes nothing in it, readable file or not.
C20_JournalFileAppendOnly ==
  [][\/ journal_file' = journal_file
     \/ /\ operation' = "save_journal"
        /\ Len(journal_file'.entries) = Len(journal_file.entries) + 1
        /\ SubSeq(journal_file'.entries, 1, Len(journal_file.entries)) = journal_file.entries
        /\ journal_file'.entries[Len(journal_file'.entries)] =
             journal_entries'[Len(journal_entries')]]_vars

\* C21: in advanced.py, final.py and soul.py the messages of the primary
\* request are the last min(6, len(log)) messages of the log as it stands after
\* the turn's user message was appended, in the log's order and with the log's
\* roles (a content over MAX_MESSAGE_CHARS may be shortened), so the last of
\* them is the user message of this turn.
C21_WindowIsLogSuffix ==
  (requests # << >> /\ app \in {"advanced", "final", "soul"}) =>
    LET log == Append(history_at_call, [role |-> "user", content |-> user_input])
        window == requests[1].messages
        n == IF Len(log) < 6 THEN Len(log) ELSE 6
    IN /\ Len(window) = n
       /\ \A i \in 1..n :
            /\ window[i].role = log[Len(log) - n + i].role
            /\ \/ window[i].content = log[Len(log) - n + i].content
               \/ /\ app # "advanced"
                  /\ Len(log[Len(log) - n + i].content) > MAX_MESSAGE_CHARS
                  /\ Len(window[i].content) < MAX_MESSAGE_CHARS
       /\ window[n].role = "user"

\* final.py: the call found six messages in the log, and its request carries
\* six messages of the seven the log then had.
C21_Witness ==
  /\ app = "final"
  /\ Len(history_at_call) = 6
  /\ requests # << >>
  /\ Len(requests[1].messages) = 6
  /\ requests[1].messages[6].content = user_input
  /\ requests[1].messages[1] = history_at_call[2]

\* C24: _is_likely_truncated answers true or false for every text and raises
\* nothing, also for a text of 30 and more characters that is all whitespace.
C24_HeuristicNeverRaises ==
  HeuristicApplied => fn_result.value \in {"True", "False"}

\* The number of messages of a role.
NumberOfRole(messages, role) ==
  Cardinality({j \in 1..Len(messages) : messages[j].role = role})

\* C25: the continuation requests of one call carry the same messages, whatever
\* reply has come in between, and no assistant message beyond those of the
\* primary request: the reply so far is not sent.
C25_ContinuationIgnoresPartialReply ==
  \A i \in 2..Len(requests) :
    /\ requests[i].messages = requests[2].messages
    /\ NumberOfRole(requests[i].messages, "assistant") =
         NumberOfRole(requests[1].messages, "assistant")

\* The second continuation request is out, and the reply so far is longer than
\* it was at the first.
C25_Witness ==
  /\ pc = "wait_cont"
  /\ Len(requests) = 3
  /\ Len(ai_response) > Len(P_UNFINISHED)
  /\ requests[3].messages = requests[2].messages

\* C27: what detect_emotion returns is one of the eight labels, also when the
\* classifier's JSON holds another value in "emotion".
C27_OneOfEightLabels ==
  (operation = "detect_emotion" /\ returned.kind = "return")
    => returned.value \in {HAPPY, SAD, ANGRY, ANXIOUS, NEUTRAL, STRESSED, EXCITED, TIRED}

\* C28: while ollama_available is false, generate_response has issued no
\* request, has left the log as it found it and has returned the offline
\* sentence.
C28_OfflineLeavesLogAlone ==
  (ollama_probed /\ ~ollama_available) =>
    /\ pc = "idle"
    /\ requests = << >>
    /\ returned.kind # "none" =>
         /\ returned.kind = "return"
         /\ returned.value = (IF app = "nayana" THEN NAYANA_OFFLINE_MESSAGE
                              ELSE OFFLINE_MESSAGE)
         /\ conversation_history = history_at_call
         /\ \A i \in 1..Len(conversation_history) :
              conversation_history[i].content # user_input

\* A call made while the flag is false has returned.
C28_Witness ==
  /\ ollama_probed
  /\ ~ollama_available
  /\ user_input = U_FEEL
  /\ returned.kind = "return"
  /\ requests = << >>

C22_OneIdentityMessageFirst ==
  app = "soul" =>
    IF ~ollama_probed THEN conversation_history = << >>
    ELSE /\ conversation_history # << >>
         /\ conversation_history[1].role = "system"
         /\ \A i \in 2..Len(conversation_history) : conversation_history[i].role # "system"

\* Three chat turns in, a name query among them.
C22_Witness ==
  /\ app = "soul"
  /\ badge_progress.sessions = 3
  /\ Len(conversation_history) >= 5
  /\ conversation_history[2].role = "assistant"

\* This step is the chat tab taking a chat input.
ChatTurnStarts == badge_progress'.sessions = badge_progress.sessions + 1

\* C23: a chat input that holds a name-query phrase, in whatever case, is
\* answered with the fixed sentence, which is appended to the log as an
\* assistant message; the turn asks the backend nothing, neither for an emotion
\* nor for a reply.
C23_NameQueryShortcut ==
  [][(ChatTurnStarts /\ user_input' = U_NAME) =>
       /\ pc' = "idle"
       /\ requests' = << >>
       /\ emotion_log' = emotion_log
       /\ returned' = [kind |-> "return", value |-> NAME_ANSWER, exc |-> ""]
       /\ conversation_history' =
            Append(conversation_history, [role |-> "assistant", content |-> NAME_ANSWER])]_vars

\* The name query came after a turn that the backend answered.
C23_Witness ==
  /\ user_input = U_NAME
  /\ pc = "idle"
  /\ emotion_log # << >>
  /\ Len(conversation_history) >= 4
  /\ conversation_history[Len(conversation_history)].content = NAME_ANSWER

\* C26: every assistant message in the log of soul.py comes right after a user
\* message, on the name-query path too.
C26_AssistantFollowsUser ==
  \A i \in 1..Len(conversation_history) :
    conversation_history[i].role = "assistant"
      => i > 1 /\ conversation_history[i - 1].role = "user"

====
